---- MODULE Spec2Model ----
\* Exam schedule builder (scanner.py): the date-sheet parser, the roll-list
\* parser with its three escalating strategies, and the schedule merger.
\* Text is a sequence of one-character strings; the regular expressions of the
\* source are computed character by character.
EXTENDS Integers, Sequences, FiniteSets, TLC

VARIABLES
    pc,            \* position in the function being run
    date_pages,    \* per-page text of the date sheet (page.extract_text())
    all_lines,     \* parse_date_sheet: all_lines
    i,             \* parse_date_sheet: loop index i (0-based, as in the source)
    current_date,  \* parse_date_sheet: current_date (<<>> models None)
    exam_map,      \* paper_id -> <<date, subject, paper_code>>
    roll_pages,    \* per-page text of the roll list
    roll_tables,   \* per-page list of tables, a table is a list of rows of cells
    force_text,    \* parse_roll_list: force_text
    full_text,     \* parse_roll_list: full_text
    students,      \* parse_roll_list: students
    rows,          \* build_schedule: rows
    notices        \* messages shown through st.info / st.warning, in order

vars == <<pc, date_pages, all_lines, i, current_date, exam_map, roll_pages,
          roll_tables, force_text, full_text, students, rows, notices>>

----------------------------------------------------------------------------
\* Characters

Digit == {"0", "1", "2", "3", "4", "5", "6", "7", "8", "9"}

UpperSeq == <<"A", "B", "C", "D", "E", "F", "G", "H", "I", "J", "K", "L", "M",
              "N", "O", "P", "Q", "R", "S", "T", "U", "V", "W", "X", "Y", "Z">>

LowerSeq == <<"a", "b", "c", "d", "e", "f", "g", "h", "i", "j", "k", "l", "m",
              "n", "o", "p", "q", "r", "s", "t", "u", "v", "w", "x", "y", "z">>

Upper == {UpperSeq[k] : k \in 1..Len(UpperSeq)}

Lower == {LowerSeq[k] : k \in 1..Len(LowerSeq)}

\* re.IGNORECASE folding of one character
ToLower(c) ==
    IF c \in Upper THEN LowerSeq[CHOOSE k \in 1..Len(UpperSeq) : UpperSeq[k] = c]
    ELSE c

WordChars == Digit \cup Upper \cup Lower \cup {"_"}

Letters == Upper \cup Lower

\* \w
IsWord(c) == c \in WordChars

\* \s, and the characters str.strip() removes
IsSpace(c) == c \in {" ", "\n", "\t", "\r"}

IsLetter(c) == c \in Letters

----------------------------------------------------------------------------
\* String helpers (positions are 1-based; the source's are 0-based)

Range(s) == {s[k] : k \in 1..Len(s)}

Min(S) == CHOOSE x \in S : \A y \in S : x <= y

Max(S) == CHOOSE x \in S : \A y \in S : x >= y

\* s[a..b] holds only digits
AllDigits(s, a, b) == b <= Len(s) /\ \A k \in a..b : s[k] \in Digit

\* \b before position p (p = Len(s) + 1 is the end of the string)
WordBoundary(s, p) ==
    LET left == p > 1 /\ p - 1 <= Len(s) /\ IsWord(s[p - 1])
        right == p >= 1 /\ p <= Len(s) /\ IsWord(s[p])
    IN left # right

\* length of the maximal run of digits starting at p
RECURSIVE DigitRun(_, _)
DigitRun(s, p) ==
    IF p > Len(s) \/ s[p] \notin Digit THEN 0 ELSE 1 + DigitRun(s, p + 1)

\* sub occurs in s at position p
OccursAt(s, sub, p) ==
    /\ p >= 1
    /\ p + Len(sub) - 1 <= Len(s)
    /\ \A k \in 1..Len(sub) : s[p + k - 1] = sub[k]

\* str.find / str.index: position of the first occurrence of sub, 0 if none
Find(s, sub) ==
    LET hits == {p \in 1..(Len(s) + 1) : OccursAt(s, sub, p)}
    IN IF hits = {} THEN 0 ELSE Min(hits)

\* str.strip(chars)
StripSet(s, chars) ==
    LET keep == {k \in 1..Len(s) : s[k] \notin chars}
    IN IF keep = {} THEN <<>> ELSE SubSeq(s, Min(keep), Max(keep))

\* str.strip()
Strip(s) == StripSet(s, {" ", "\n", "\t", "\r"})

\* re.sub(r'\s+', ' ', s)
RECURSIVE CollapseSpace(_)
CollapseSpace(s) ==
    IF s = <<>> THEN <<>>
    ELSE IF IsSpace(Head(s))
         THEN IF Len(s) > 1 /\ IsSpace(s[2]) THEN CollapseSpace(Tail(s))
              ELSE <<" ">> \o CollapseSpace(Tail(s))
         ELSE <<Head(s)>> \o CollapseSpace(Tail(s))

\* str.split('\n')
RECURSIVE SplitLines(_)
SplitLines(s) ==
    LET nl == Find(s, <<"\n">>)
    IN IF nl = 0 THEN <<s>>
       ELSE <<SubSeq(s, 1, nl - 1)>> \o SplitLines(SubSeq(s, nl + 1, Len(s)))

\* a dedup that keeps the last occurrence of each element instead of the first
RECURSIVE FromKeysKeepLast(_)
FromKeysKeepLast(xs) ==
    IF xs = <<>> THEN <<>>
    ELSE IF Head(xs) \in Range(Tail(xs)) THEN FromKeysKeepLast(Tail(xs))
         ELSE <<Head(xs)>> \o FromKeysKeepLast(Tail(xs))

\* list(dict.fromkeys(xs))
RECURSIVE FromKeys(_)
FromKeys(xs) ==
    IF xs = <<>> THEN <<>>
    ELSE LET init == FromKeys(SubSeq(xs, 1, Len(xs) - 1))
             last == xs[Len(xs)]
         IN IF last \in Range(init) THEN init ELSE Append(init, last)

----------------------------------------------------------------------------
\* Patterns shared by the parsers

PaperIdLen == 5

RollMinLen == 9

\* paper_id_pattern matches at p: \b\d{5}\b
PaperIdAt(s, p) ==
    /\ WordBoundary(s, p)
    /\ AllDigits(s, p, p + PaperIdLen - 1)
    /\ WordBoundary(s, p + PaperIdLen)

\* paper_id_pattern.findall(s): non-overlapping matches, left to right
RECURSIVE FindPaperIdsFrom(_, _)
FindPaperIdsFrom(s, p) ==
    IF p + PaperIdLen - 1 > Len(s) THEN <<>>
    ELSE IF PaperIdAt(s, p)
         THEN <<SubSeq(s, p, p + PaperIdLen - 1)>>
                  \o FindPaperIdsFrom(s, p + PaperIdLen)
         ELSE FindPaperIdsFrom(s, p + 1)

FindPaperIds(s) == FindPaperIdsFrom(s, 1)

\* roll_pattern matches at p: \b\d{9,}\b (the whole digit run, by greediness
\* and the closing \b)
RollAt(s, p) ==
    /\ p <= Len(s)
    /\ s[p] \in Digit
    /\ WordBoundary(s, p)
    /\ DigitRun(s, p) >= RollMinLen
    /\ WordBoundary(s, p + DigitRun(s, p))

\* roll_pattern.finditer(s): the start positions of all matches
RollStarts(s) == {p \in 1..Len(s) : RollAt(s, p)}

\* roll_pattern.search(s): start of the first match, 0 for no match
RollSearch(s) == IF RollStarts(s) = {} THEN 0 ELSE Min(RollStarts(s))

\* match.group(1) of the roll match starting at p
RollGroup(s, p) == SubSeq(s, p, p + DigitRun(s, p) - 1)

----------------------------------------------------------------------------
\* 1. parse_date_sheet

CodeMinDigits == 3

CodeMaxDigits == 4

\* the date pattern \d{2}[\.\-]\d{2}[\.\-]\d{4} matches at p
DateAt(s, p) ==
    /\ p >= 1
    /\ p + 9 <= Len(s)
    /\ AllDigits(s, p, p + 1)
    /\ s[p + 2] \in {".", "-"}
    /\ AllDigits(s, p + 3, p + 4)
    /\ s[p + 5] \in {".", "-"}
    /\ AllDigits(s, p + 6, p + 9)

\* re.search of the date pattern: start of the first match, 0 for no match
DateSearch(s) ==
    LET hits == {p \in 1..Len(s) : DateAt(s, p)}
    IN IF hits = {} THEN 0 ELSE Min(hits)

\* date_match.group(1).replace('-', '.')
NormalizeDate(d) == [k \in 1..Len(d) |-> IF d[k] = "-" THEN "." ELSE d[k]]

\* [\w\.]
IsCodeChar(c) == IsWord(c) \/ c = "."

\* length of the maximal run of [\w\.] characters starting at p
RECURSIVE CodeCharRun(_, _)
CodeCharRun(s, p) ==
    IF p > Len(s) \/ ~IsCodeChar(s[p]) THEN 0 ELSE 1 + CodeCharRun(s, p + 1)

\* code_pattern \b[\w\.]+?-\d{3,4}\b matches at p. The lazy run must stop
\* right before a '-', which is no [\w\.] character, so it is the maximal run;
\* the digits must be a whole run of 3 or 4 because of the closing \b.
CodeAt(s, p) ==
    LET r == CodeCharRun(s, p)
        d == DigitRun(s, p + r + 1)
    IN /\ IsCodeChar(s[p])
       /\ WordBoundary(s, p)
       /\ r >= 1
       /\ p + r <= Len(s)
       /\ s[p + r] = "-"
       /\ d >= CodeMinDigits
       /\ d <= CodeMaxDigits
       /\ WordBoundary(s, p + r + 1 + d)

\* code_match.group(1) if code_match else ""
PaperCode(s) ==
    LET hits == {p \in 1..Len(s) : CodeAt(s, p)}
    IN IF hits = {} THEN <<>>
       ELSE LET p == Min(hits)
                r == CodeCharRun(s, p)
            IN SubSeq(s, p, p + r + DigitRun(s, p + r + 1))

\* the subject of a line that holds paper ids
Subject(line, paper_ids, paper_code) ==
    LET cut == IF paper_code # <<>> /\ Find(line, paper_code) # 0
               THEN Strip(SubSeq(line, 1, Find(line, paper_code) - 1))
               ELSE IF paper_ids # <<>>
                    THEN Strip(SubSeq(line, 1, Find(line, paper_ids[1]) - 1))
                    ELSE line
    IN StripSet(CollapseSpace(cut), {" ", "-"})

\* an assignment that keeps the first mapping of a paper id
RECURSIVE AssignKeepFirst(_, _, _)
AssignKeepFirst(map, pids, entry) ==
    IF pids = <<>> THEN map
    ELSE LET pid == Head(pids)
             next == [k \in DOMAIN map \cup {pid} |->
                         IF k \in DOMAIN map THEN map[k] ELSE entry]
         IN AssignKeepFirst(next, Tail(pids), entry)

\* exam_map[pid] = entry for every pid of pids, in order
RECURSIVE Assign(_, _, _)
Assign(map, pids, entry) ==
    IF pids = <<>> THEN map
    ELSE LET pid == Head(pids)
             next == [k \in DOMAIN map \cup {pid} |->
                         IF k = pid THEN entry ELSE map[k]]
         IN Assign(next, Tail(pids), entry)

\* the lines of the pages that have text, in page order
RECURSIVE ExtractLines(_)
ExtractLines(pages) ==
    IF pages = <<>> THEN <<>>
    ELSE (IF Head(pages) # <<>> THEN SplitLines(Head(pages)) ELSE <<>>)
             \o ExtractLines(Tail(pages))

\* current_date after the date check of one stripped line
DateAfter(date, line) ==
    IF DateSearch(line) # 0
    THEN NormalizeDate(SubSeq(line, DateSearch(line), DateSearch(line) + 9))
    ELSE date

\* exam_map after one stripped, non-empty line, date being the current date
\* after the line's date check
MapAfter(map, date, line) ==
    LET paper_ids == FindPaperIds(line)
        paper_code == PaperCode(line)
    IN IF date # <<>> /\ paper_ids # <<>>
       THEN Assign(map, paper_ids, <<date, Subject(line, paper_ids, paper_code), paper_code>>)
       ELSE map

\* with pdfplumber.open(...): all_lines.extend(text.split('\n'))
ReadDateSheet ==
    /\ pc = "read"
    /\ all_lines' = ExtractLines(date_pages)
    /\ pc' = "scan"
    /\ UNCHANGED <<date_pages, i, current_date, exam_map, roll_pages,
                   roll_tables, force_text, full_text, students, rows, notices>>

\* one iteration of the while loop
DateSheetLine ==
    /\ pc = "scan"
    /\ i < Len(all_lines)
    /\ LET line == Strip(all_lines[i + 1])
       IN IF line = <<>>
          THEN UNCHANGED <<current_date, exam_map>>
          ELSE /\ current_date' = DateAfter(current_date, line)
               /\ exam_map' = MapAfter(exam_map, DateAfter(current_date, line), line)
    /\ i' = i + 1
    /\ UNCHANGED <<pc, date_pages, all_lines, roll_pages, roll_tables,
                   force_text, full_text, students, rows, notices>>

\* the loop ends: return exam_map
DateSheetReturn ==
    /\ pc = "scan"
    /\ i >= Len(all_lines)
    /\ pc' = "done"
    /\ UNCHANGED <<date_pages, all_lines, i, current_date, exam_map, roll_pages,
                   roll_tables, force_text, full_text, students, rows, notices>>

----------------------------------------------------------------------------
\* 2. parse_roll_list

Unknown == <<"U", "N", "K", "N", "O", "W", "N">>

Window == 1000

\* s holds word (any case of it) at position p, under re.IGNORECASE
WordAt(s, word, p) ==
    /\ p >= 1
    /\ p + Len(word) - 1 <= Len(s)
    /\ \A k \in 1..Len(word) : ToLower(s[p + k - 1]) = word[k]

\* length of the maximal run of whitespace starting at p
RECURSIVE SpaceRun(_, _)
SpaceRun(s, p) ==
    IF p > Len(s) \/ ~IsSpace(s[p]) THEN 0 ELSE 1 + SpaceRun(s, p + 1)

\* " ".join([str(c) for c in row if c])
RECURSIVE RowStr(_)
RowStr(row) ==
    IF row = <<>> THEN <<>>
    ELSE IF Head(row) = <<>> THEN RowStr(Tail(row))
         ELSE LET rest == RowStr(Tail(row))
              IN IF rest = <<>> THEN Head(row) ELSE Head(row) \o <<" ">> \o rest

\* the name taken from the cells of a table row
RowName(row) ==
    LET ok == {k \in 1..Len(row) :
                   row[k] # <<>> /\ RollSearch(row[k]) = 0 /\ Len(row[k]) > 2}
        name == IF ok = {} THEN <<>> ELSE Strip(row[Min(ok)])
    IN IF name = <<>> THEN Unknown ELSE name

\* the students one table row appends
RowStudents(row) ==
    LET row_str == RowStr(row)
        paper_ids == FromKeys(FindPaperIds(row_str))
    IN IF row = <<>> \/ RollSearch(row_str) = 0 \/ paper_ids = <<>> THEN <<>>
       ELSE <<[roll_no |-> RollGroup(row_str, RollSearch(row_str)),
               student_name |-> RowName(row),
               paper_ids |-> paper_ids]>>

\* the rows of all tables of all pages, in order
RECURSIVE Flatten(_)
Flatten(ss) == IF ss = <<>> THEN <<>> ELSE Head(ss) \o Flatten(Tail(ss))

\* the students the tabular strategy finds
RECURSIVE RowsStudents(_)
RowsStudents(rs) ==
    IF rs = <<>> THEN <<>> ELSE RowStudents(Head(rs)) \o RowsStudents(Tail(rs))

TableStudents(tables) == RowsStudents(Flatten(Flatten(tables)))

\* length of the match of Roll\s*No\.?\s* (re.IGNORECASE) at p, 0 for no match
LabelLen(s, p) ==
    IF ~WordAt(s, <<"r", "o", "l", "l">>, p) THEN 0
    ELSE LET a == p + 4 + SpaceRun(s, p + 4)
         IN IF ~WordAt(s, <<"n", "o">>, a) THEN 0
            ELSE LET b == IF a + 2 <= Len(s) /\ s[a + 2] = "." THEN a + 3 ELSE a + 2
                 IN b + SpaceRun(s, b) - p

\* re.split(r'(Roll\s*No\.?\s*)', s, flags=re.IGNORECASE)
RECURSIVE SplitLabel(_)
SplitLabel(s) ==
    LET hits == {p \in 1..Len(s) : LabelLen(s, p) > 0}
    IN IF hits = {} THEN <<s>>
       ELSE LET p == Min(hits)
                n == LabelLen(s, p)
            IN <<SubSeq(s, 1, p - 1), SubSeq(s, p, p + n - 1)>>
                   \o SplitLabel(SubSeq(s, p + n, Len(s)))

\* block = chunks[i] + chunks[i+1], for i = 1, 3, 5, ...
Blocks(s) ==
    LET chunks == SplitLabel(s)
    IN [k \in 1..((Len(chunks) - 1) \div 2) |-> chunks[2 * k] \o chunks[2 * k + 1]]

\* (Father|SUBJECTS|Roll|$) matches at e
NameTail(s, e) ==
    \/ WordAt(s, <<"f", "a", "t", "h", "e", "r">>, e)
    \/ WordAt(s, <<"s", "u", "b", "j", "e", "c", "t", "s">>, e)
    \/ WordAt(s, <<"r", "o", "l", "l">>, e)
    \/ e = Len(s) + 1
    \/ (e = Len(s) /\ s[e] = "\n")

\* ([A-Z\s]+?)\s+(Father|SUBJECTS|Roll|$) matches at g with a group of n characters
NameGroup(s, g, n) ==
    /\ n >= 1
    /\ g + n - 1 <= Len(s)
    /\ \A k \in g..(g + n - 1) : IsLetter(s[k]) \/ IsSpace(s[k])
    /\ \E m \in 1..SpaceRun(s, g + n) : NameTail(s, g + n + m)

\* the group starts the regex engine can try after "Name" at p: \s+ is greedy,
\* so the longest run of whitespace that leads to a match is taken
NameStarts(s, p) ==
    IF ~WordAt(s, <<"n", "a", "m", "e">>, p) THEN {}
    ELSE {p + 4 + a : a \in {b \in 1..SpaceRun(s, p + 4) :
                                 \E n \in 1..Len(s) : NameGroup(s, p + 4 + b, n)}}

\* name_match.group(1) of Name\s+([A-Z\s]+?)\s+(Father|SUBJECTS|Roll|$);
\* found tells whether the pattern matched
NameField(s) ==
    LET hits == {p \in 1..Len(s) : NameStarts(s, p) # {}}
    IN IF hits = {} THEN [found |-> FALSE, name |-> <<>>]
       ELSE LET g == Max(NameStarts(s, Min(hits)))
                n == Min({k \in 1..Len(s) : NameGroup(s, g, k)})
            IN [found |-> TRUE, name |-> SubSeq(s, g, g + n - 1)]

\* the fallback name: the line after the first line that holds 'Roll No'
LineAfterLabel(block) ==
    LET lines == SplitLines(block)
        hits == {k \in 1..(Len(lines) - 1) :
                     Find(lines[k], <<"R", "o", "l", "l", " ", "N", "o">>) # 0}
        name == IF hits = {} THEN <<>> ELSE Strip(lines[Min(hits) + 1])
    IN IF name = <<>> THEN Unknown ELSE name

\* the student name of a block
BlockName(block) ==
    IF NameField(block).found THEN Strip(NameField(block).name)
    ELSE LineAfterLabel(block)

\* a block strategy that accepts a block without paper ids
BlockStudentsAnyIds(block) ==
    IF RollSearch(block) = 0 THEN <<>>
    ELSE <<[roll_no |-> RollGroup(block, RollSearch(block)),
            student_name |-> <<>>,
            paper_ids |-> FindPaperIds(block)]>>

\* the students one block appends
BlockStudents(block) ==
    LET paper_ids == FromKeys(FindPaperIds(block))
    IN IF RollSearch(block) = 0 \/ paper_ids = <<>> THEN <<>>
       ELSE <<[roll_no |-> RollGroup(block, RollSearch(block)),
               student_name |-> BlockName(block),
               paper_ids |-> paper_ids]>>

RECURSIVE BlocksStudents(_)
BlocksStudents(bs) ==
    IF bs = <<>> THEN <<>> ELSE BlockStudents(Head(bs)) \o BlocksStudents(Tail(bs))

\* the students the delimited-block strategy finds
ChunkStudents(text) == BlocksStudents(Blocks(text))

\* length of the match of [A-Z][a-z]+ at p, 0 for no match
RECURSIVE LowerRun(_, _)
LowerRun(s, p) ==
    IF p > Len(s) \/ s[p] \notin Lower THEN 0 ELSE 1 + LowerRun(s, p + 1)

CapWordLen(s, p) ==
    IF p > Len(s) \/ s[p] \notin Upper \/ LowerRun(s, p + 1) = 0 THEN 0
    ELSE 1 + LowerRun(s, p + 1)

\* length of the match of [A-Z][a-z]+(?:\s+[A-Z][a-z]+)* at p, 0 for no match
RECURSIVE CapWordsLen(_, _)
CapWordsLen(s, p) ==
    LET w == CapWordLen(s, p)
        sp == SpaceRun(s, p + w)
    IN IF w = 0 THEN 0
       ELSE IF sp > 0 /\ CapWordLen(s, p + w + sp) > 0
            THEN w + sp + CapWordsLen(s, p + w + sp)
            ELSE w

\* the first run of capitalized words of s, or 'UNKNOWN'
CapName(s) ==
    LET hits == {p \in 1..Len(s) : CapWordLen(s, p) > 0}
    IN IF hits = {} THEN Unknown
       ELSE SubSeq(s, Min(hits), Min(hits) + CapWordsLen(s, Min(hits)) - 1)

\* context = full_text[start:end] around the roll match at p
Context(text, p) ==
    SubSeq(text, Max({1, p - Window}),
           Min({Len(text), p + DigitRun(text, p) - 1 + Window}))

\* the students the roll match at p appends
MatchStudents(text, p) ==
    LET paper_ids == FromKeys(FindPaperIds(Context(text, p)))
    IN IF paper_ids = <<>> THEN <<>>
       ELSE <<[roll_no |-> RollGroup(text, p),
               student_name |-> CapName(SubSeq(text, Max({1, p - Window}), p - 1)),
               paper_ids |-> paper_ids]>>

RECURSIVE MatchesStudents(_, _)
MatchesStudents(text, ps) ==
    IF ps = {} THEN <<>>
    ELSE MatchStudents(text, Min(ps)) \o MatchesStudents(text, ps \ {Min(ps)})

\* the students the brute-force strategy finds
BruteStudents(text) == MatchesStudents(text, RollStarts(text))

\* full_text += text + "\n" for every page that has text
RECURSIVE FullText(_)
FullText(pages) ==
    IF pages = <<>> THEN <<>>
    ELSE (IF Head(pages) # <<>> THEN Head(pages) \o <<"\n">> ELSE <<>>)
             \o FullText(Tail(pages))

InfoChunk == [level |-> "info", text |-> "Table extraction gave no results - using text chunking."]

WarnBrute == [level |-> "warning", text |-> "Still no students - attempting brute force extraction."]

\* with pdfplumber.open(...): full_text is built
ExtractText ==
    /\ pc = "extract"
    /\ full_text' = FullText(roll_pages)
    /\ pc' = "table"
    /\ UNCHANGED <<date_pages, all_lines, i, current_date, exam_map, roll_pages,
                   roll_tables, force_text, students, rows, notices>>

\* a tabular strategy that runs whatever force_text says
TabularIgnoresForce ==
    /\ pc = "table"
    /\ students' = students \o TableStudents(roll_tables)
    /\ pc' = "chunk"
    /\ UNCHANGED <<date_pages, all_lines, i, current_date, exam_map, roll_pages,
                   roll_tables, force_text, full_text, rows, notices>>

\* if not force_text: the tabular strategy
Tabular ==
    /\ pc = "table"
    /\ students' = IF force_text THEN students
                   ELSE students \o TableStudents(roll_tables)
    /\ pc' = "chunk"
    /\ UNCHANGED <<date_pages, all_lines, i, current_date, exam_map, roll_pages,
                   roll_tables, force_text, full_text, rows, notices>>

\* if not students: the delimited-block strategy
Chunking ==
    /\ pc = "chunk"
    /\ IF students = <<>>
       THEN /\ students' = students \o ChunkStudents(full_text)
            /\ notices' = Append(notices, InfoChunk)
       ELSE UNCHANGED <<students, notices>>
    /\ pc' = "brute"
    /\ UNCHANGED <<date_pages, all_lines, i, current_date, exam_map, roll_pages,
                   roll_tables, force_text, full_text, rows>>

\* a brute-force strategy that runs whatever was found before
BruteForceAlways ==
    /\ pc = "brute"
    /\ students' = students \o BruteStudents(full_text)
    /\ notices' = Append(notices, WarnBrute)
    /\ pc' = "parsed"
    /\ UNCHANGED <<date_pages, all_lines, i, current_date, exam_map, roll_pages,
                   roll_tables, force_text, full_text, rows>>

\* if not students: the brute-force strategy; return students
BruteForce ==
    /\ pc = "brute"
    /\ IF students = <<>>
       THEN /\ students' = students \o BruteStudents(full_text)
            /\ notices' = Append(notices, WarnBrute)
       ELSE UNCHANGED <<students, notices>>
    /\ pc' = "parsed"
    /\ UNCHANGED <<date_pages, all_lines, i, current_date, exam_map, roll_pages,
                   roll_tables, force_text, full_text, rows>>

----------------------------------------------------------------------------
\* Inputs of the date-sheet parser

MaxLines == 3

\* "01.01.2025", "02-01-2025", "54321", "99999", "ENG-101"
Date1 == <<"0", "1", ".", "0", "1", ".", "2", "0", "2", "5">>

Date2 == <<"0", "2", "-", "0", "1", "-", "2", "0", "2", "5">>

Id1 == <<"5", "4", "3", "2", "1">>

Id2 == <<"9", "9", "9", "9", "9">>

Code1 == <<"E", "N", "G", "-", "1", "0", "1">>

\* the lines a date sheet is made of: a date alone, a date with an entry on
\* the same line, an entry with a paper code and two ids, an entry without a
\* code and with dash noise, an id alone, a blank line
DateLines ==
    { Date1,
      Date2 \o <<" ", "M", "a", "t", "h", "s", " ">> \o Id2,
      <<"E", "n", "g", "l", "i", "s", "h", " ">> \o Code1 \o <<" ">> \o Id1 \o <<" ">> \o Id2,
      <<" ", "-", " ", "P", "h", "y", " ", " ", "-", " ">> \o Id2 \o <<" ">>,
      Id1,
      <<" ">> }

\* all sequences over S of length at most n
RECURSIVE SeqsUpTo(_, _)
SeqsUpTo(S, n) ==
    IF n = 0 THEN {<<>>}
    ELSE LET shorter == SeqsUpTo(S, n - 1)
         IN shorter \cup {Append(q, x) : q \in {t \in shorter : Len(t) = n - 1}, x \in S}

\* '\n'.join(lines)
RECURSIVE JoinLines(_)
JoinLines(lines) ==
    IF lines = <<>> THEN <<>>
    ELSE IF Len(lines) = 1 THEN lines[1]
         ELSE lines[1] \o <<"\n">> \o JoinLines(Tail(lines))

\* a document of at most MaxLines lines, laid out on two pages cut in the middle
DatePages ==
    {<<JoinLines(SubSeq(ls, 1, Len(ls) \div 2)),
       JoinLines(SubSeq(ls, Len(ls) \div 2 + 1, Len(ls)))>> :
        ls \in SeqsUpTo(DateLines, MaxLines)}

InitDateSheet ==
    /\ pc = "read"
    /\ date_pages \in DatePages
    /\ all_lines = <<>>
    /\ i = 0
    /\ current_date = <<>>
    /\ exam_map = <<>>
    /\ roll_pages = <<>>
    /\ roll_tables = <<>>
    /\ force_text = FALSE
    /\ full_text = <<>>
    /\ students = <<>>
    /\ rows = <<>>
    /\ notices = <<>>

NextDateSheet == ReadDateSheet \/ DateSheetLine \/ DateSheetReturn

SpecDateSheet == InitDateSheet /\ [][NextDateSheet]_vars

----------------------------------------------------------------------------
\* 3. build_schedule

NotFound == <<"N", "O", "T", " ", "F", "O", "U", "N", "D">>

\* a row that leaves the date and subject empty when the paper id is unknown
ScheduleRowBlankMiss(map, s, pid) ==
    [roll_no |-> s.roll_no, student_name |-> s.student_name,
     exam_date |-> IF pid \in DOMAIN map THEN map[pid][1] ELSE <<>>,
     subject |-> IF pid \in DOMAIN map THEN map[pid][2] ELSE <<>>,
     paper_code |-> IF pid \in DOMAIN map THEN map[pid][3] ELSE <<>>,
     paper_id |-> pid]

\* the row of one (student, paper id) pair
ScheduleRow(map, s, pid) ==
    IF pid \in DOMAIN map
    THEN [roll_no |-> s.roll_no, student_name |-> s.student_name,
          exam_date |-> map[pid][1], subject |-> map[pid][2],
          paper_code |-> map[pid][3], paper_id |-> pid]
    ELSE [roll_no |-> s.roll_no, student_name |-> s.student_name,
          exam_date |-> NotFound, subject |-> Unknown,
          paper_code |-> <<>>, paper_id |-> pid]

\* an inner loop that skips the paper ids exam_map does not hold
RECURSIVE StudentRowsMatched(_, _, _)
StudentRowsMatched(map, s, pids) ==
    IF pids = <<>> THEN <<>>
    ELSE (IF Head(pids) \in DOMAIN map THEN <<ScheduleRow(map, s, Head(pids))>> ELSE <<>>)
             \o StudentRowsMatched(map, s, Tail(pids))

\* the inner loop: for pid in s['paper_ids']
RECURSIVE StudentRows(_, _, _)
StudentRows(map, s, pids) ==
    IF pids = <<>> THEN <<>>
    ELSE <<ScheduleRow(map, s, Head(pids))>> \o StudentRows(map, s, Tail(pids))

\* the outer loop: for s in students
RECURSIVE build_schedule(_, _)
build_schedule(map, ss) ==
    IF ss = <<>> THEN <<>>
    ELSE StudentRows(map, Head(ss), Head(ss).paper_ids) \o build_schedule(map, Tail(ss))

\* df = build_schedule(exam_map, students)
BuildSchedule ==
    /\ pc = "parsed"
    /\ rows' = build_schedule(exam_map, students)
    /\ pc' = "merged"
    /\ UNCHANGED <<date_pages, all_lines, i, current_date, exam_map, roll_pages,
                   roll_tables, force_text, full_text, students, notices>>

----------------------------------------------------------------------------
\* Inputs of the roll-list parser

MaxTokens == 3

MaxCells == 2

Roll1 == <<"1", "2", "3", "4", "5", "6", "7", "8", "9">>

Id3 == <<"5", "4", "3", "2", "2">>

AnnLee == <<"A", "n", "n", " ", "L", "e", "e">>

\* the pieces a roll-list text is made of: "Roll No. ", "123456789 ",
\* "54321 54322 54321\n", "Name Ann Lee\n", "Roll No. 123456789 "
RollLabel == <<"R", "o", "l", "l", " ", "N", "o", ".", " ">>

RollTokens ==
    { RollLabel,
      Roll1 \o <<" ">>,
      Id1 \o <<" ">> \o Id3 \o <<" ">> \o Id1 \o <<"\n">>,
      <<"N", "a", "m", "e", " ">> \o AnnLee \o <<"\n">>,
      RollLabel \o Roll1 \o <<" ">> }

\* the cells a table row is made of: None, a roll number, paper ids with a
\* repeat, a name, a two-letter cell
RollCells ==
    { <<>>,
      Roll1,
      Id1 \o <<" ">> \o Id3 \o <<" ">> \o Id1,
      AnnLee,
      <<"A", "B">> }

\* the pages of a text, cut in the middle
TwoPages(tokens) ==
    <<Flatten(SubSeq(tokens, 1, Len(tokens) \div 2)),
      Flatten(SubSeq(tokens, Len(tokens) \div 2 + 1, Len(tokens)))>>

\* one page with one table of one row
OneRow(row) == << << <<row>> >> >>

SomeTexts ==
    { <<>>,
      <<Roll1 \o <<" ">> \o Id1>>,
      <<<<"r", "o", "l", "l", "n", "o", " ">> \o Roll1 \o <<" ">> \o Id3 \o <<" ">> \o Id3>> }

SomeTables ==
    { <<>>,
      << <<>>, << <<>>, << <<>>, <<AnnLee, Id1>>, <<Roll1, AnnLee, Id1>> >> >> >> }

DateMap == (Id1 :> <<NormalizeDate(Date1), <<"E", "n", "g">>, Code1>>)

InitRollList ==
    /\ pc = "extract"
    /\ date_pages = <<>>
    /\ all_lines = <<>>
    /\ i = 0
    /\ current_date = <<>>
    /\ exam_map = DateMap
    /\ \/ /\ roll_pages \in {TwoPages(ts) : ts \in SeqsUpTo(RollTokens, MaxTokens)}
          /\ roll_tables \in SomeTables
       \/ /\ roll_pages \in SomeTexts
          /\ roll_tables \in {OneRow(r) : r \in SeqsUpTo(RollCells, MaxCells)}
    /\ force_text \in BOOLEAN
    /\ full_text = <<>>
    /\ students = <<>>
    /\ rows = <<>>
    /\ notices = <<>>

NextRollList == ExtractText \/ Tabular \/ Chunking \/ BruteForce \/ BuildSchedule

SpecRollList == InitRollList /\ [][NextRollList]_vars

----------------------------------------------------------------------------
\* Inputs of the merger

MaxStudents == 2

Entries ==
    { <<NormalizeDate(Date1), <<"E", "n", "g">>, Code1>>,
      <<NormalizeDate(Date2), <<"P", "h", "y">>, <<>>>> }

\* the mappings with keys among ids and values among Entries
MapsOver(ids) == UNION {[d -> Entries] : d \in SUBSET ids}

\* enrollment lists: none, one id, two ids, an id twice
SomePaperIds == {<<>>, <<Id1>>, <<Id1, Id3>>, <<Id3, Id1, Id3>>}

SomeStudents ==
    {[roll_no |-> r, student_name |-> AnnLee, paper_ids |-> ps] :
        r \in {Roll1, Roll1 \o <<"0">>}, ps \in SomePaperIds}

InitSchedule ==
    /\ pc = "parsed"
    /\ date_pages = <<>>
    /\ all_lines = <<>>
    /\ i = 0
    /\ current_date = <<>>
    /\ exam_map \in MapsOver({Id1, Id3})
    /\ roll_pages = <<>>
    /\ roll_tables = <<>>
    /\ force_text = FALSE
    /\ full_text = <<>>
    /\ students \in SeqsUpTo(SomeStudents, MaxStudents)
    /\ rows = <<>>
    /\ notices = <<>>

NextSchedule == BuildSchedule

SpecSchedule == InitSchedule /\ [][NextSchedule]_vars

----------------------------------------------------------------------------
\* Properties of build_schedule (SpecSchedule)

RECURSIVE Enrollments(_)
Enrollments(ss) ==
    IF ss = <<>> THEN 0 ELSE Len(Head(ss).paper_ids) + Enrollments(Tail(ss))

\* the position in rows of the j-th paper of the k-th student
RowIndex(ss, k, j) == Enrollments(SubSeq(ss, 1, k - 1)) + j

\* C1: build_schedule returns as many rows as there are (student, paper id)
\* enrollments, the sum of len(paper_ids) over the students, whether or not
\* the paper ids are keys of exam_map.
C1_RowCount == pc = "merged" => Len(rows) = Enrollments(students)

C1_Witness ==
    /\ pc = "merged"
    /\ Len(rows) >= 3
    /\ \E k \in 1..Len(students) : \E j \in 1..Len(students[k].paper_ids) :
           students[k].paper_ids[j] \notin DOMAIN exam_map
    /\ \E k \in 1..Len(students) : \E j \in 1..Len(students[k].paper_ids) :
           students[k].paper_ids[j] \in DOMAIN exam_map

\* C2: the row of a (student, paper id) pair keeps the student's roll number,
\* name and the paper id; it carries the tuple exam_map stores for the id, or
\* 'NOT FOUND', 'UNKNOWN' and an empty paper code when the id is no key of
\* exam_map. No pair is dropped.
C2_HitOrSentinel ==
    pc = "merged" =>
        \A k \in 1..Len(students) : \A j \in 1..Len(students[k].paper_ids) :
            LET pid == students[k].paper_ids[j]
                n == RowIndex(students, k, j)
            IN /\ n <= Len(rows)
               /\ rows[n].roll_no = students[k].roll_no
               /\ rows[n].student_name = students[k].student_name
               /\ rows[n].paper_id = pid
               /\ <<rows[n].exam_date, rows[n].subject, rows[n].paper_code>> =
                      IF pid \in DOMAIN exam_map THEN exam_map[pid]
                      ELSE <<NotFound, Unknown, <<>>>>

C2_Witness ==
    /\ pc = "merged"
    /\ \E n \in 1..Len(rows) : rows[n].exam_date = NotFound
    /\ \E n \in 1..Len(rows) : rows[n].paper_code = Code1

----------------------------------------------------------------------------
\* Properties of parse_date_sheet (SpecDateSheet)

\* the lines scanned so far, stripped
Scanned == [k \in 1..i |-> Strip(all_lines[k])]

\* the date in force at line k: the date of the last date-bearing line up to k
DateContext(k) ==
    LET ds == {j \in 1..k : DateSearch(Scanned[j]) # 0}
    IN IF ds = {} THEN <<>>
       ELSE NormalizeDate(SubSeq(Scanned[Max(ds)], DateSearch(Scanned[Max(ds)]),
                                 DateSearch(Scanned[Max(ds)]) + 9))

\* the paper ids of line k
LineIds(k) == Range(FindPaperIds(Scanned[k]))

\* the scanned lines that list pid under an established date
QualifyingLines(pid) == {k \in 1..i : pid \in LineIds(k) /\ DateContext(k) # <<>>}

\* the tuple line k writes
LineEntry(k) ==
    <<DateContext(k),
      Subject(Scanned[k], FindPaperIds(Scanned[k]), PaperCode(Scanned[k])),
      PaperCode(Scanned[k])>>

\* C3: the mapping of a paper id is the tuple written by the last qualifying
\* line that lists it, with the date current at that line; the ids of one
\* line share that line's tuple.
C3_LastLineWins ==
    pc \in {"scan", "done"} =>
        /\ DOMAIN exam_map = {pid \in UNION {LineIds(k) : k \in 1..i} :
                                  QualifyingLines(pid) # {}}
        /\ \A pid \in DOMAIN exam_map :
               exam_map[pid] = LineEntry(Max(QualifyingLines(pid)))

\* an id listed under 01.01.2025 and later under 02.01.2025 ends at 02.01.2025
C3_Witness ==
    /\ pc = "done"
    /\ \E pid \in DOMAIN exam_map :
           /\ exam_map[pid][1] = NormalizeDate(Date2)
           /\ \E k \in QualifyingLines(pid) : DateContext(k) = Date1

\* the date-bearing lines
DateLineSet == {k \in 1..Len(all_lines) : DateSearch(Strip(all_lines[k])) # 0}

\* the paper ids that occur only on lines before the first date-bearing line
\* (none when the document has no date-bearing line)
EarlyOnlyIds ==
    IF DateLineSet = {} THEN {}
    ELSE UNION {Range(FindPaperIds(Strip(all_lines[k]))) : k \in 1..(Min(DateLineSet) - 1)}
             \ UNION {Range(FindPaperIds(Strip(all_lines[k]))) :
                          k \in Min(DateLineSet)..Len(all_lines)}

\* C4: a paper id that occurs only before the first date-bearing line is
\* absent from the returned mapping and is reported as a warning.
C4_DroppedWithWarning ==
    pc = "done" =>
        \A pid \in EarlyOnlyIds :
            /\ pid \notin DOMAIN exam_map
            /\ \E n \in 1..Len(notices) : notices[n].level = "warning"

\* the part of C4 the parser does keep: such an id is absent from the mapping
C4_DroppedSilently ==
    pc = "done" => \A pid \in EarlyOnlyIds : pid \notin DOMAIN exam_map

----------------------------------------------------------------------------
\* Properties of parse_roll_list (SpecRollList)

\* what the tabular strategy yields on the input (nothing when it is skipped)
TabularYield == IF force_text THEN <<>> ELSE TableStudents(roll_tables)

\* C5 as stated: when the tabular strategy yields zero students, the parser
\* returns what the delimited-block strategy alone returns on the text.
C5_SameAsBlocks ==
    (pc = "parsed" /\ ~force_text /\ TableStudents(roll_tables) = <<>>)
        => students = ChunkStudents(full_text)

\* C5 as amended: when the tabular strategy yields zero students (or is
\* skipped), the parser returns the delimited-block result if that result has
\* a student, and the brute-force result otherwise.
C5_BlocksElseBrute ==
    (pc = "parsed" /\ TabularYield = <<>>)
        => students = IF ChunkStudents(full_text) # <<>>
                      THEN ChunkStudents(full_text)
                      ELSE BruteStudents(full_text)

C5_Witness ==
    /\ pc = "parsed"
    /\ ~force_text
    /\ roll_tables # <<>>
    /\ TableStudents(roll_tables) = <<>>
    /\ ChunkStudents(full_text) # <<>>
    /\ students = ChunkStudents(full_text)

\* the result of the first strategy, in order, that yields a student
FirstYield ==
    IF TabularYield # <<>> THEN TabularYield
    ELSE IF ChunkStudents(full_text) # <<>> THEN ChunkStudents(full_text)
         ELSE BruteStudents(full_text)

\* C6: the parser returns the output of the first strategy that yields a
\* student, in the order tabular (skipped under force_text), delimited-block,
\* brute force; a later strategy never changes a non-empty result; the
\* brute-force strategy is announced only when both earlier ones yielded
\* nothing; when all yield nothing the result is the empty list.
C6_FirstYieldWins ==
    /\ [](pc \in {"parsed", "merged"} =>
              /\ students = FirstYield
              /\ (WarnBrute \in Range(notices)) =
                     (TabularYield = <<>> /\ ChunkStudents(full_text) = <<>>))
    /\ [][students # <<>> => students' = students]_vars

C6_Witness ==
    /\ pc = "parsed"
    /\ ~force_text
    /\ TableStudents(roll_tables) = <<>>
    /\ ChunkStudents(full_text) = <<>>
    /\ students # <<>>
    /\ students = BruteStudents(full_text)

\* a text a student can be made of: it holds a roll number and a paper id
Qualifies(t) == RollSearch(t) # 0 /\ FindPaperIds(t) # <<>>

HasPaperIds(t) == FindPaperIds(t) # <<>>

\* the row strings, blocks and windows of the input a student is made of
TableSources ==
    IF force_text THEN <<>>
    ELSE LET rs == Flatten(Flatten(roll_tables))
         IN SelectSeq([k \in 1..Len(rs) |-> RowStr(rs[k])], Qualifies)

BlockSources == SelectSeq(Blocks(full_text), Qualifies)

RECURSIVE Windows(_, _)
Windows(text, ps) ==
    IF ps = {} THEN <<>>
    ELSE <<Context(text, Min(ps))>> \o Windows(text, ps \ {Min(ps)})

WindowSources == SelectSeq(Windows(full_text, RollStarts(full_text)), HasPaperIds)

\* the sources of the students found so far
Sources ==
    IF pc \in {"extract", "table"} THEN <<>>
    ELSE IF pc = "chunk" \/ TableSources # <<>> THEN TableSources
         ELSE IF pc = "brute" \/ BlockSources # <<>> THEN BlockSources
              ELSE WindowSources

\* out lists the distinct elements of src in the order of their first occurrence
FirstOccurrences(out, src) ==
    /\ Range(out) = Range(src)
    /\ \A a, b \in 1..Len(out) : a < b =>
           /\ out[a] # out[b]
           /\ Min({k \in 1..Len(src) : src[k] = out[a]})
                  < Min({k \in 1..Len(src) : src[k] = out[b]})

\* C7: in every student record, of whichever strategy, paper_ids has no
\* duplicates and keeps the order in which the ids first occur in the
\* student's row, block or window.
C7_DedupFirstOccurrence ==
    /\ Len(students) = Len(Sources)
    /\ \A k \in 1..Len(students) :
           FirstOccurrences(students[k].paper_ids, FindPaperIds(Sources[k]))

\* a block that lists 54321, 54322, 54321 yields <<54321, 54322>>
C7_Witness ==
    /\ pc = "parsed"
    /\ TableSources = <<>>
    /\ \E k \in 1..Len(students) :
           /\ FindPaperIds(BlockSources[k]) = <<Id1, Id3, Id1>>
           /\ students[k].paper_ids = <<Id1, Id3>>

\* the digits right after the label of a block
TokenAfterLabel(block) ==
    SubSeq(block, LabelLen(block, 1) + 1,
           LabelLen(block, 1) + DigitRun(block, LabelLen(block, 1) + 1))

\* C8: in the delimited-block strategy the roll number of a block is the
\* numeric token right after the block's "Roll No" label, not a long numeric
\* token later in the block (checked where such a token follows the label).
C8_RollFollowsLabel ==
    (pc = "brute" /\ TableSources = <<>>) =>
        \A k \in 1..Len(students) :
            k <= Len(BlockSources) /\ TokenAfterLabel(BlockSources[k]) # <<>>
                => students[k].roll_no = TokenAfterLabel(BlockSources[k])

\* the cell holds a letter and no long digit run
AlphabeticCell(c) == (\E k \in 1..Len(c) : IsLetter(c[k])) /\ RollSearch(c) = 0

\* the cell holds digits (and blanks) only
DigitsOnly(c) == c # <<>> /\ \A k \in 1..Len(c) : c[k] \in Digit \cup {" "}

\* the rows of the tables a student is made of
StudentRowsOfTables ==
    SelectSeq(Flatten(Flatten(roll_tables)), LAMBDA r : Qualifies(RowStr(r)))

\* C9: in the tabular strategy the name of a row is never a cell of digits
\* only; it is 'UNKNOWN' when the row has no alphabetic cell.
C9_NameIsAlphabetic ==
    (pc = "chunk" /\ ~force_text) =>
        \A k \in 1..Len(students) :
            /\ ~DigitsOnly(students[k].student_name)
            /\ (k <= Len(StudentRowsOfTables)
                  /\ \A c \in Range(StudentRowsOfTables[k]) : ~AlphabeticCell(c))
                   => students[k].student_name = Unknown

\* C10: every student record has a roll number of at least 9 digits and a
\* non-empty paper_ids; a row, block or window lacking either yields no
\* record; build_schedule emits a row for every returned student.
C10_RollAndPapers ==
    /\ Len(students) = Len(Sources)
    /\ \A k \in 1..Len(students) :
           /\ Len(students[k].roll_no) >= RollMinLen
           /\ \A n \in 1..Len(students[k].roll_no) : students[k].roll_no[n] \in Digit
           /\ students[k].paper_ids # <<>>
           /\ pc = "merged" =>
                  \E n \in 1..Len(rows) :
                      /\ rows[n].roll_no = students[k].roll_no
                      /\ rows[n].student_name = students[k].student_name
                      /\ rows[n].paper_id \in Range(students[k].paper_ids)

\* a block with a roll number and no paper id is passed over
C10_Witness ==
    /\ pc = "merged"
    /\ students # <<>>
    /\ Len(Blocks(full_text)) > Len(BlockSources)
    /\ TableSources = <<>>
    /\ BlockSources # <<>>
    /\ \E k \in 1..Len(Blocks(full_text)) :
           RollSearch(Blocks(full_text)[k]) # 0 /\ FindPaperIds(Blocks(full_text)[k]) = <<>>

====
